---- MODULE Spec2Model ----
(***************************************************************************)
(* The budget store of src/src/context/BudgetContext.tsx: the reducer, the *)
(* provider's load and save effects, the mutation dispatchers, and the     *)
(* browser storage item "budgetData" they mirror the state into.           *)
(***************************************************************************)
EXTENDS Integers, Sequences, FiniteSets, TLC

VARIABLES
    state,        \* the reducer state of the last committed render
    queue,        \* dispatched actions the reducer has not processed yet
    storage,      \* localStorage item "budgetData"
    savedData,    \* what the load effect read from storage
    pc,           \* "mounted": first render done; "loaded": load effect run; "ready"
    savePending,  \* the save effect of the last commit has not run yet
    clock,        \* the last value Date.now() returned
    crashed,      \* a render or an effect threw and React unmounted the tree
    lastCall,     \* the store operation called last, until it is rendered
    ops,          \* number of store operations called so far
    unwritten,    \* number of store operations called since the last write
    writeFailed,  \* a setItem call of the save effect threw
    page          \* what the page handler run in the last step did or showed

vars == <<state, queue, storage, savedData, pc, savePending, clock, crashed, lastCall, ops,
          unwritten, writeFailed, page>>

-----------------------------------------------------------------------------
(* Bounds of the model. *)

MaxOps == 3
MaxQueue == 2
MaxClock == 2

-----------------------------------------------------------------------------
(* Values. A JavaScript number is an integer here; Infinity stands for the  *)
(* non-finite numbers, and JSNull stands for null where a                   *)
(* number is expected (JSON has no non-finite numbers). No number of a      *)
(* reachable snapshot is as large as Infinity or below 0.                   *)

Infinity == 1000000
JSNull == -1

IsFinite(n) == n # Infinity /\ n # JSNull

Types == {"income", "expense"}

defaultCategories ==
    << [id |-> "1", name |-> "Food & Dining",     icon |-> "plate",    color |-> "#F59E0B"],
       [id |-> "2", name |-> "Transportation",    icon |-> "car",      color |-> "#3B82F6"],
       [id |-> "3", name |-> "Shopping",          icon |-> "bags",     color |-> "#EF4444"],
       [id |-> "4", name |-> "Entertainment",     icon |-> "clapper",  color |-> "#8B5CF6"],
       [id |-> "5", name |-> "Bills & Utilities", icon |-> "bolt",     color |-> "#10B981"],
       [id |-> "6", name |-> "Healthcare",        icon |-> "hospital", color |-> "#F97316"],
       [id |-> "7", name |-> "Salary",            icon |-> "moneybag", color |-> "#059669"],
       [id |-> "8", name |-> "Freelance",         icon |-> "case",     color |-> "#0891B2"],
       [id |-> "9", name |-> "Other",             icon |-> "package",  color |-> "#6B7280"] >>

initialState ==
    [transactions |-> <<>>, budgets |-> <<>>, categories |-> defaultCategories]

\* A value has the shape of BudgetState.
IsSnapshot(v) == DOMAIN v = {"transactions", "budgets", "categories"}

-----------------------------------------------------------------------------
(* Storage and JSON. The item is absent, or holds a text: a text that is    *)
(* not JSON, or the JSON text of a value.                                   *)

NoItem == [kind |-> "absent"]
GarbageText == [kind |-> "garbage"]
JsonText(v) == [kind |-> "json", val |-> v]

\* JavaScript values that are not objects with the three lists.
NullValue == [js |-> "null"]
NumberValue == [js |-> "number"]

\* The reducer or a consumer threw a TypeError.
Threw == [js |-> "TypeError"]

\* JSON.stringify of a number: a non-finite number is written as null.
JSONNumber(n) == IF IsFinite(n) THEN n ELSE JSNull

JSONTransaction(t) ==
    [id |-> t.id, amount |-> JSONNumber(t.amount), type |-> t.type,
     category |-> t.category, date |-> t.date, description |-> t.description]

\* Mutant: the spent field of a budget is written as null.
JSONBudgetNullsSpent(b) ==
    [category |-> b.category, limit |-> JSONNumber(b.limit), spent |-> JSNull]

JSONBudget(b) ==
    [category |-> b.category, limit |-> JSONNumber(b.limit), spent |-> JSONNumber(b.spent)]

\* JSON.stringify(state): the text whose parse is the returned value.
JSONstringify(v) ==
    IF IsSnapshot(v)
    THEN JsonText([transactions |-> [i \in DOMAIN v.transactions |-> JSONTransaction(v.transactions[i])],
                   budgets |-> [i \in DOMAIN v.budgets |-> JSONBudget(v.budgets[i])],
                   categories |-> v.categories])
    ELSE JsonText(v)

\* JSON.parse throws on a text that is not JSON.
ParseThrows(text) == text.kind # "json"
JSONparse(text) == text.val

\* if (savedData): getItem returns null for an absent item, and every text
\* modelled here is non-empty.
Truthy(item) == item.kind # "absent"

-----------------------------------------------------------------------------
(* The reducer. *)

\* Mutant: the new transaction is put first.
ReduceAddTransactionPrepends(s, payload) ==
    [s EXCEPT !.transactions = <<payload>> \o s.transactions]

\* Mutant: the new transaction replaces the list.
ReduceAddTransactionReplaces(s, payload) ==
    [s EXCEPT !.transactions = <<payload>>]

\* Mutant: the addition of an expense is added to the spent field of the
\* budget of its category.
ReduceAddTransactionRefreshesSpent(s, payload) ==
    LET refreshed(b) ==
            IF b.category = payload.category /\ payload.type = "expense"
            THEN [b EXCEPT !.spent = b.spent + payload.amount]
            ELSE b
    IN  [s EXCEPT !.transactions = Append(s.transactions, payload),
                  !.budgets = [i \in DOMAIN s.budgets |-> refreshed(s.budgets[i])]]

\* case 'ADD_TRANSACTION'
ReduceAddTransaction(s, payload) ==
    [s EXCEPT !.transactions = Append(s.transactions, payload)]

\* Mutant: the replaced entry moves to the end of the list.
ReduceUpdateTransactionMoves(s, payload) ==
    LET other(t) == t.id # payload.id
    IN  IF \E i \in DOMAIN s.transactions : s.transactions[i].id = payload.id
        THEN [s EXCEPT !.transactions = Append(SelectSeq(s.transactions, other), payload)]
        ELSE s

\* case 'UPDATE_TRANSACTION'
ReduceUpdateTransaction(s, payload) ==
    LET repl(t) == IF t.id = payload.id THEN payload ELSE t
    IN  [s EXCEPT !.transactions = [i \in DOMAIN s.transactions |-> repl(s.transactions[i])]]

\* Mutant: the entries behind the deleted one are dropped too.
ReduceDeleteTransactionTruncates(s, payload) ==
    LET first == {i \in DOMAIN s.transactions : s.transactions[i].id = payload}
    IN  IF first = {} THEN s
        ELSE [s EXCEPT !.transactions =
                 SubSeq(s.transactions, 1, (CHOOSE i \in first : \A k \in first : i <= k) - 1)]

\* case 'DELETE_TRANSACTION'
ReduceDeleteTransaction(s, payload) ==
    LET keep(t) == t.id # payload
    IN  [s EXCEPT !.transactions = SelectSeq(s.transactions, keep)]

\* Mutant: the budget is always appended.
ReduceSetBudgetAppends(s, payload) ==
    [s EXCEPT !.budgets = Append(s.budgets, payload)]

\* Mutant: an existing budget is kept as it is.
ReduceSetBudgetKeepsOld(s, payload) ==
    LET same(b) == b.category = payload.category
    IN  [s EXCEPT !.budgets = IF \E i \in DOMAIN s.budgets : same(s.budgets[i])
                              THEN s.budgets
                              ELSE Append(s.budgets, payload)]

\* Mutant: a replaced budget moves to the end of the list.
ReduceSetBudgetMoves(s, payload) ==
    LET other(b) == b.category # payload.category
    IN  [s EXCEPT !.budgets = Append(SelectSeq(s.budgets, other), payload)]

\* case 'SET_BUDGET'
ReduceSetBudget(s, payload) ==
    LET same(b) == b.category = payload.category
        repl(b) == IF same(b) THEN payload ELSE b
    IN  [s EXCEPT !.budgets = IF \E i \in DOMAIN s.budgets : same(s.budgets[i])
                              THEN [i \in DOMAIN s.budgets |-> repl(s.budgets[i])]
                              ELSE Append(s.budgets, payload)]

\* Mutant: a category whose name the list already has is not added.
ReduceAddCategorySkipsKnownName(s, payload) ==
    IF \E i \in DOMAIN s.categories : s.categories[i].name = payload.name
    THEN s
    ELSE [s EXCEPT !.categories = Append(s.categories, payload)]

\* case 'ADD_CATEGORY'
ReduceAddCategory(s, payload) ==
    [s EXCEPT !.categories = Append(s.categories, payload)]

\* Mutant: the loaded lists are merged into the current state's categories.
ReduceLoadDataKeepsCategories(s, payload) ==
    IF IsSnapshot(s) /\ IsSnapshot(payload)
    THEN [payload EXCEPT !.categories = s.categories \o payload.categories]
    ELSE payload

\* case 'LOAD_DATA'
ReduceLoadData(s, payload) == payload

\* Every case but LOAD_DATA reads a list of the state, which throws a
\* TypeError when the state is null or has no such list.
budgetReducer(s, action) ==
    IF action.type = "LOAD_DATA" THEN ReduceLoadData(s, action.payload)
    ELSE IF ~IsSnapshot(s) THEN Threw
    ELSE IF action.type = "ADD_TRANSACTION" THEN ReduceAddTransaction(s, action.payload)
    ELSE IF action.type = "UPDATE_TRANSACTION" THEN ReduceUpdateTransaction(s, action.payload)
    ELSE IF action.type = "DELETE_TRANSACTION" THEN ReduceDeleteTransaction(s, action.payload)
    ELSE IF action.type = "SET_BUDGET" THEN ReduceSetBudget(s, action.payload)
    ELSE IF action.type = "ADD_CATEGORY" THEN ReduceAddCategory(s, action.payload)
    ELSE s

IsThrow(v) == "js" \in DOMAIN v /\ v.js = "TypeError"

\* Mutant: a render applies only the action dispatched last.
ReduceAllKeepsLast(s, q) ==
    IF q = <<>> THEN s ELSE budgetReducer(s, q[Len(q)])

\* A render runs the reducer over the queued actions in dispatch order; a
\* throw ends the render.
RECURSIVE ReduceAll(_, _)
ReduceAll(s, q) ==
    IF q = <<>> THEN s
    ELSE LET n == budgetReducer(s, Head(q))
         IN  IF IsThrow(n) THEN Threw ELSE ReduceAll(n, Tail(q))

-----------------------------------------------------------------------------
(* Inputs. *)

Food == "Food & Dining"
Shopping == "Shopping"

\* Omit<Transaction, 'id'> as the transaction form submits it: the amount is a
\* finite number above 0. Two expenses of one category, an income, and a
\* large expense of another category.
TransactionData ==
    { [amount |-> 500, type |-> "expense", category |-> Food,
       date |-> "2024-01-10", description |-> "Lunch"],
      [amount |-> 5000, type |-> "expense", category |-> Shopping,
       date |-> "2024-01-10", description |-> "Shoes"],
      [amount |-> 1, type |-> "income", category |-> Food,
       date |-> "2024-01-10", description |-> "Refund"],
      [amount |-> 600, type |-> "expense", category |-> Food,
       date |-> "2024-01-10", description |-> "Feast"] }

\* What updateTransaction is given: an edited transaction, under any id.
UpdateData ==
    { [amount |-> 1, type |-> "expense", category |-> Shopping,
       date |-> "2024-01-10", description |-> "Edited"] }

\* An id no transaction has.
NoSuchId == "none"

\* The limit is a finite number above 0; the spent field is whatever the
\* caller passes.
Budgets ==
    { [category |-> Food, limit |-> 1000, spent |-> 500],
      [category |-> Food, limit |-> 2, spent |-> 0],
      [category |-> Shopping, limit |-> 1, spent |-> 0] }

\* Omit<Category, 'id'>: a new name, and a name the seed already has.
CategoryData ==
    { [name |-> "Travel", icon |-> "plane", color |-> "#000000"],
      [name |-> "Other", icon |-> "package", color |-> "#6B7280"] }

WithId(data, id) ==
    [id |-> id, amount |-> data.amount, type |-> data.type, category |-> data.category,
     date |-> data.date, description |-> data.description]

\* A snapshot found under budgetData at startup: one transaction, one budget,
\* and a category list that is not the seed list.
PriorSnapshot ==
    [transactions |-> << WithId([amount |-> 1, type |-> "expense", category |-> Food,
                                 date |-> "2024-01-09", description |-> "Dinner"], "0") >>,
     budgets |-> << [category |-> Food, limit |-> 3, spent |-> 1] >>,
     categories |-> << [id |-> "9", name |-> "Other", icon |-> "package", color |-> "#6B7280"],
                       [id |-> "0", name |-> "Travel", icon |-> "plane", color |-> "#000000"] >>]

MalformedItems == {GarbageText, JsonText(NullValue), JsonText(NumberValue)}

InitialItems ==
    {NoItem} \cup MalformedItems \cup {JSONstringify(PriorSnapshot)}

NoCall == [op |-> "none"]

\* No page handler ran in the last step: the store is used through its
\* functions only, or the last step was one of the provider's.
NoPage == [name |-> "none"]

-----------------------------------------------------------------------------
(* The provider. *)

Init ==
    /\ state = initialState
    /\ queue = <<>>
    /\ storage \in InitialItems
    /\ savedData = NoItem
    /\ pc = "mounted"
    /\ savePending = TRUE
    /\ clock = 1
    /\ crashed = FALSE
    /\ lastCall = NoCall
    /\ ops = 0
    /\ unwritten = 0
    /\ writeFailed = FALSE
    /\ page = NoPage

\* useEffect(() => { ... }, []): the load effect, run once after the first render.
LoadEffect ==
    /\ pc = "mounted"
    /\ pc' = "loaded"
    /\ savedData' = storage
    /\ queue' = IF Truthy(storage) /\ ~ParseThrows(storage)
                THEN Append(queue, [type |-> "LOAD_DATA", payload |-> JSONparse(storage)])
                ELSE queue
    /\ page' = NoPage
    /\ UNCHANGED <<state, storage, savePending, clock, crashed, lastCall, ops,
                   unwritten, writeFailed>>

\* Mutant: the save effect skips the write while the transaction list is not empty.
SaveEffectSkipsWrite ==
    /\ pc \in {"loaded", "ready"}
    /\ ~crashed
    /\ savePending
    /\ storage' = IF IsSnapshot(state) /\ state.transactions # <<>>
                  THEN storage ELSE JSONstringify(state)
    /\ savePending' = FALSE
    /\ pc' = "ready"
    /\ unwritten' = 0
    /\ page' = NoPage
    /\ UNCHANGED <<state, queue, savedData, clock, crashed, lastCall, ops, writeFailed>>

\* useEffect(() => { localStorage.setItem(...) }, [state]): runs after the first
\* render, behind the load effect in the same flush, and after every commit of
\* a new state.
SaveEffect ==
    /\ pc \in {"loaded", "ready"}
    /\ ~crashed
    /\ savePending
    /\ storage' = JSONstringify(state)
    /\ savePending' = FALSE
    /\ pc' = "ready"
    /\ unwritten' = 0
    /\ page' = NoPage
    /\ UNCHANGED <<state, queue, savedData, clock, crashed, lastCall, ops, writeFailed>>

\* The save effect when setItem throws (the quota is exceeded, or the storage
\* is disabled): the effect has no try/catch, nothing above the provider
\* catches the error, and React unmounts the tree.
SaveEffectThrows ==
    /\ pc \in {"loaded", "ready"}
    /\ ~crashed
    /\ savePending
    /\ savePending' = FALSE
    /\ crashed' = TRUE
    /\ writeFailed' = TRUE
    /\ page' = NoPage
    /\ UNCHANGED <<state, queue, storage, savedData, pc, clock, lastCall, ops, unwritten>>

\* An event handler runs under a mounted provider, once the effects of the
\* previous commit have been flushed.
CanCall ==
    /\ pc = "ready"
    /\ ~crashed
    /\ ~savePending
    /\ Len(queue) < MaxQueue
    /\ ops < MaxOps

Dispatch(action) == queue' = Append(queue, action)

\* What Date.now() may return: the millisecond it returned last or a later
\* one; the next one stands for every later one, ids being compared only for
\* equality.
Now == {n \in {clock, clock + 1} : n <= MaxClock}

\* Date.now() returns now, not less than what it returned before.
addTransaction(transaction, now) ==
    /\ CanCall
    /\ LET newTransaction == WithId(transaction, ToString(now))
       IN  Dispatch([type |-> "ADD_TRANSACTION", payload |-> newTransaction])
    /\ clock' = now
    /\ lastCall' = [op |-> "addTransaction", arg |-> transaction]
    /\ ops' = ops + 1
    /\ unwritten' = unwritten + 1
    /\ UNCHANGED <<state, storage, savedData, pc, savePending, crashed, writeFailed>>

updateTransaction(transaction) ==
    /\ CanCall
    /\ Dispatch([type |-> "UPDATE_TRANSACTION", payload |-> transaction])
    /\ lastCall' = [op |-> "updateTransaction", arg |-> transaction]
    /\ ops' = ops + 1
    /\ unwritten' = unwritten + 1
    /\ UNCHANGED <<state, storage, savedData, pc, savePending, clock, crashed, writeFailed>>

deleteTransaction(id) ==
    /\ CanCall
    /\ Dispatch([type |-> "DELETE_TRANSACTION", payload |-> id])
    /\ lastCall' = [op |-> "deleteTransaction", arg |-> id]
    /\ ops' = ops + 1
    /\ unwritten' = unwritten + 1
    /\ UNCHANGED <<state, storage, savedData, pc, savePending, clock, crashed, writeFailed>>

setBudget(budget) ==
    /\ CanCall
    /\ Dispatch([type |-> "SET_BUDGET", payload |-> budget])
    /\ lastCall' = [op |-> "setBudget", arg |-> budget]
    /\ ops' = ops + 1
    /\ unwritten' = unwritten + 1
    /\ UNCHANGED <<state, storage, savedData, pc, savePending, clock, crashed, writeFailed>>

addCategory(category, now) ==
    /\ CanCall
    /\ LET newCategory == [id |-> ToString(now), name |-> category.name,
                           icon |-> category.icon, color |-> category.color]
       IN  Dispatch([type |-> "ADD_CATEGORY", payload |-> newCategory])
    /\ clock' = now
    /\ lastCall' = [op |-> "addCategory", arg |-> category]
    /\ ops' = ops + 1
    /\ unwritten' = unwritten + 1
    /\ UNCHANGED <<state, storage, savedData, pc, savePending, crashed, writeFailed>>

CanRender ==
    /\ pc = "ready"
    /\ ~crashed
    /\ ~savePending
    /\ queue # <<>>

\* Mutant: the commit of a state with transactions schedules no save effect.
RenderCommitWithoutEffect ==
    /\ CanRender
    /\ ~IsThrow(ReduceAll(state, queue))
    /\ state' = ReduceAll(state, queue)
    /\ queue' = <<>>
    /\ savePending' = (~IsSnapshot(state') \/ state'.transactions = <<>>)
    /\ lastCall' = NoCall
    /\ page' = NoPage
    /\ UNCHANGED <<storage, savedData, pc, clock, crashed, ops, unwritten, writeFailed>>

\* A render whose reducer returns a state; the commit schedules the save effect.
\* A state without the lists commits only under a page that reads none of them.
RenderCommit ==
    /\ CanRender
    /\ ~IsThrow(ReduceAll(state, queue))
    /\ state' = ReduceAll(state, queue)
    /\ queue' = <<>>
    /\ savePending' = TRUE
    /\ lastCall' = NoCall
    /\ page' = NoPage
    /\ UNCHANGED <<storage, savedData, pc, clock, crashed, ops, unwritten, writeFailed>>

\* A render that throws, in the reducer or in a page reading state.transactions
\* or state.categories of a state without them: nothing catches it and React
\* unmounts the tree.
RenderThrow ==
    /\ CanRender
    /\ \/ IsThrow(ReduceAll(state, queue))
       \/ ~IsSnapshot(ReduceAll(state, queue))
    /\ crashed' = TRUE
    /\ queue' = <<>>
    /\ lastCall' = NoCall
    /\ page' = NoPage
    /\ UNCHANGED <<state, storage, savedData, pc, savePending, clock, ops, unwritten, writeFailed>>

\* The ids updateTransaction and deleteTransaction are called with: those of
\* the transactions in the list, those of the transactions whose addition is
\* queued, and an id no transaction has, which stands for every such id.
IdChoices ==
    {NoSuchId}
        \cup (IF IsSnapshot(state)
              THEN {state.transactions[i].id : i \in DOMAIN state.transactions}
              ELSE {})
        \cup {queue[i].payload.id :
                  i \in {j \in DOMAIN queue : queue[j].type = "ADD_TRANSACTION"}}

Next ==
    \/ LoadEffect
    \/ SaveEffect
    \/ SaveEffectThrows
    \/ \E transaction \in TransactionData, now \in Now :
          addTransaction(transaction, now) /\ UNCHANGED page
    \/ \E transaction \in UpdateData, id \in IdChoices :
          updateTransaction(WithId(transaction, id)) /\ UNCHANGED page
    \/ \E id \in IdChoices : deleteTransaction(id) /\ UNCHANGED page
    \/ \E budget \in Budgets : setBudget(budget) /\ UNCHANGED page
    \/ \E category \in CategoryData, now \in Now :
          addCategory(category, now) /\ UNCHANGED page
    \/ RenderCommit
    \/ RenderThrow

\* The store used through its functions, by any consumer.
Spec == Init /\ [][Next]_vars

-----------------------------------------------------------------------------
(* Arithmetic. Amounts and limits are exact numbers: integers of the        *)
(* smallest unit. The rounding of JavaScript's floating-point operations,   *)
(* which is in the last bits of a result, is not in the model.              *)

\* A quotient is a fraction in lowest terms.
RECURSIVE GCD(_, _)
GCD(a, b) == IF b = 0 THEN a ELSE GCD(b, a % b)

Fraction(n, d) == [num |-> n \div GCD(n, d), den |-> d \div GCD(n, d)]

\* The number n, a / b for b > 0, x * k, and Math.min(x, y).
Whole(n) == [num |-> n, den |-> 1]
Divide(a, b) == Fraction(a, b)
Times(x, k) == Fraction(x.num * k, x.den)

\* Mutant: Math.min returns its first argument.
MathMinKeepsFirst(x, y) == x

MathMin(x, y) == IF x.num * y.den <= y.num * x.den THEN x ELSE y

-----------------------------------------------------------------------------
(* Queries: the aggregate functions the provider hands to its consumers,    *)
(* computed from the current state.                                         *)

\* list.reduce((sum, t) => sum + t.amount, sum)
RECURSIVE SumAmounts(_, _)
SumAmounts(sum, list) ==
    IF list = <<>> THEN sum
    ELSE SumAmounts(sum + Head(list).amount, Tail(list))

IsIncome(t) == t.type = "income"
IsExpense(t) == t.type = "expense"

calculateTotalIncome == SumAmounts(0, SelectSeq(state.transactions, IsIncome))

calculateTotalExpensesCountsIncome == SumAmounts(0, state.transactions)

calculateTotalExpenses == SumAmounts(0, SelectSeq(state.transactions, IsExpense))

calculateBalance == calculateTotalIncome - calculateTotalExpenses

\* Mutant: the amount replaces the value of the key.
AddToCategoryOverwrites(acc, t) ==
    [c \in DOMAIN acc \cup {t.category} |-> IF c = t.category THEN t.amount ELSE acc[c]]

\* acc[t.category] = (acc[t.category] || 0) + t.amount; return acc
AddToCategory(acc, t) ==
    LET had == IF t.category \in DOMAIN acc /\ acc[t.category] # 0
               THEN acc[t.category] ELSE 0
    IN  [c \in DOMAIN acc \cup {t.category} |->
            IF c = t.category THEN had + t.amount ELSE acc[c]]

\* list.reduce((acc, t) => { ... }, acc)
RECURSIVE GroupAmounts(_, _)
GroupAmounts(acc, list) ==
    IF list = <<>> THEN acc
    ELSE GroupAmounts(AddToCategory(acc, Head(list)), Tail(list))

\* Mutant: the grouping takes the income transactions as well.
getExpensesByCategoryCountsIncome == GroupAmounts(<<>>, state.transactions)

\* The object returned, as a function from its keys to their values.
getExpensesByCategory == GroupAmounts(<<>>, SelectSeq(state.transactions, IsExpense))

\* Mutant: the progress is computed from the spent field of the budget.
getBudgetProgressReadsStoredSpent(category) ==
    LET found == SelectSeq(state.budgets, LAMBDA b : b.category = category)
    IN  IF found = <<>> THEN Whole(0)
        ELSE MathMin(Times(Divide(Head(found).spent, Head(found).limit), 100), Whole(100))

\* find returns the first budget of the category, undefined when there is none.
getBudgetProgress(category) ==
    LET found == SelectSeq(state.budgets, LAMBDA b : b.category = category)
    IN  IF found = <<>> THEN Whole(0)
        ELSE LET budget == Head(found)
                 spent == SumAmounts(0, SelectSeq(state.transactions,
                              LAMBDA t : t.type = "expense" /\ t.category = category))
             IN  MathMin(Times(Divide(spent, budget.limit), 100), Whole(100))

-----------------------------------------------------------------------------
(* Pages: the consumers of the store under BudgetProvider. A text is the    *)
(* value of a form control; a time is a number of hours since               *)
(* 1970-01-01T00:00Z.                                                       *)

\* Number(text) of a text that is no number.
NaN == 1000001

isNaN(n) == n = NaN

\* Number(text), for the texts the controls are given here.
Number(text) ==
    CASE text = "" -> 0
      [] text = "0" -> 0
      [] text = "-5" -> 0 - 5
      [] text = "1" -> 1
      [] text = "500" -> 500
      [] text = "600" -> 600
      [] text = "1000" -> 1000
      [] OTHER -> NaN

\* text.trim()
trim(text) ==
    CASE text = "  " -> ""
      [] text = " Shoes " -> "Shoes"
      [] OTHER -> text

\* text.toLowerCase()
toLowerCase(text) ==
    CASE text = "Sho" -> "sho"
      [] text = "Shoes" -> "shoes"
      [] text = "Shopping" -> "shopping"
      [] text = "Lunch" -> "lunch"
      [] text = "Dinner" -> "dinner"
      [] text = "Food & Dining" -> "food & dining"
      [] OTHER -> text

\* text.includes(term), for the one term searched for here.
includes(text, term) ==
    \/ term = ""
    \/ text = term
    \/ term = "sho" /\ text \in {"shoes", "shopping"}

\* new Date(date).getTime(), for a date of the form YYYY-MM-DD: midnight UTC.
getTime(date) ==
    CASE date = "2024-01-09" -> 19731 * 24
      [] date = "2024-01-10" -> 19732 * 24

\* What the transaction form holds when it is submitted: a valid form, a
\* valid form whose description has spaces around it, and forms with one
\* field that validateForm refuses.
ValidTransactionForms ==
    { [amount |-> "500", type |-> "expense", category |-> Food,
       date |-> "2024-01-10", description |-> "Lunch"],
      [amount |-> "600", type |-> "expense", category |-> Shopping,
       date |-> "2024-01-10", description |-> " Shoes "] }

InvalidTransactionForms ==
    { [amount |-> "", type |-> "expense", category |-> Food,
       date |-> "2024-01-10", description |-> "Lunch"],
      [amount |-> "0", type |-> "expense", category |-> Food,
       date |-> "2024-01-10", description |-> "Lunch"],
      [amount |-> "-5", type |-> "income", category |-> Food,
       date |-> "2024-01-10", description |-> "Lunch"],
      [amount |-> "abc", type |-> "expense", category |-> Food,
       date |-> "2024-01-10", description |-> "Lunch"],
      [amount |-> "500", type |-> "expense", category |-> "",
       date |-> "2024-01-10", description |-> "Lunch"],
      [amount |-> "500", type |-> "expense", category |-> Food,
       date |-> "2024-01-10", description |-> "  "] }

TransactionForms == ValidTransactionForms \cup InvalidTransactionForms

\* The transaction prop of the form: none when adding, the transaction of the
\* row whose edit button was pressed when editing.
NoTransaction == [id |-> NoSuchId]

Editing ==
    {NoTransaction}
        \cup (IF IsSnapshot(state)
              THEN {state.transactions[i] : i \in DOMAIN state.transactions}
              ELSE {})

\* What the budget form holds when it is submitted.
BudgetForms ==
    { [category |-> Food, limit |-> "1000"],
      [category |-> Shopping, limit |-> "1"],
      [category |-> "", limit |-> "1000"],
      [category |-> Food, limit |-> ""],
      [category |-> Food, limit |-> "0"],
      [category |-> Shopping, limit |-> "-5"] }

\* The search term, the two filters and the sort setting of the Transactions
\* page: the page's initial setting, another sort with no filter set, and a
\* setting with the three filters set.
ViewSettings ==
    { [searchTerm |-> "", filterType |-> "all", filterCategory |-> "",
       sortBy |-> "date", sortOrder |-> "desc"],
      [searchTerm |-> "", filterType |-> "all", filterCategory |-> "",
       sortBy |-> "amount", sortOrder |-> "asc"],
      [searchTerm |-> "Sho", filterType |-> "expense", filterCategory |-> Shopping,
       sortBy |-> "amount", sortOrder |-> "desc"] }

\* An event handler of a page runs once the previous event has been rendered
\* and its effects flushed, under a page that has rendered the snapshot.
CanHandle == CanCall /\ queue = <<>> /\ IsSnapshot(state)

\* Mutant: the form validates the category only.
validateFormCategoryOnly(formData) ==
    IF formData.category = "" THEN {"category"} ELSE {}

\* TransactionForm.validateForm: the fields it sets an error for.
validateForm(formData) ==
    (IF \/ formData.amount = ""
        \/ isNaN(Number(formData.amount))
        \/ Number(formData.amount) <= 0
     THEN {"amount"} ELSE {})
        \cup (IF formData.category = "" THEN {"category"} ELSE {})
        \cup (IF trim(formData.description) = "" THEN {"description"} ELSE {})

\* TransactionForm.handleSubmit
handleSubmit(formData, transaction) ==
    /\ CanHandle
    /\ page' = [name |-> "TransactionForm", formData |-> formData,
                errors |-> validateForm(formData)]
    /\ IF validateForm(formData) # {}
       THEN UNCHANGED <<state, queue, storage, savedData, pc, savePending, clock, crashed,
                        lastCall, ops, unwritten, writeFailed>>
       ELSE LET transactionData ==
                    [amount |-> Number(formData.amount), type |-> formData.type,
                     category |-> formData.category, date |-> formData.date,
                     description |-> trim(formData.description)]
            IN  IF transaction = NoTransaction
                THEN \E now \in Now : addTransaction(transactionData, now)
                ELSE updateTransaction(WithId(transactionData, transaction.id))

\* Mutant: the form passes a spent of 0.
SpentOfNothing(category) == 0

\* expensesByCategory[category] || 0, of the page's last render
SpentOf(category) ==
    LET expensesByCategory == getExpensesByCategory
    IN  IF category \in DOMAIN expensesByCategory /\ expensesByCategory[category] # 0
        THEN expensesByCategory[category]
        ELSE 0

\* Budget.handleSubmitBudget
handleSubmitBudget(budgetForm) ==
    /\ CanHandle
    /\ LET invalid == \/ budgetForm.category = ""
                      \/ budgetForm.limit = ""
                      \/ Number(budgetForm.limit) <= 0
       IN  /\ page' = [name |-> "Budget", budgetForm |-> budgetForm,
                       toast |-> IF invalid THEN "Invalid input" ELSE "Budget updated"]
           /\ IF invalid
              THEN UNCHANGED <<state, queue, storage, savedData, pc, savePending, clock,
                               crashed, lastCall, ops, unwritten, writeFailed>>
              ELSE setBudget([category |-> budgetForm.category,
                              limit |-> Number(budgetForm.limit),
                              spent |-> SpentOf(budgetForm.category)])

\* Transactions.handleDelete: confirmed is what window.confirm returns.
handleDelete(id, confirmed) ==
    /\ CanHandle
    /\ page' = [name |-> "Transactions.handleDelete", id |-> id, confirmed |-> confirmed]
    /\ IF confirmed
       THEN deleteTransaction(id)
       ELSE UNCHANGED <<state, queue, storage, savedData, pc, savePending, clock, crashed,
                        lastCall, ops, unwritten, writeFailed>>

\* The three filters of the Transactions page, each applied when it is set.
Filtered(list, settings) ==
    LET term == toLowerCase(settings.searchTerm)
        bySearch == IF settings.searchTerm # ""
                    THEN SelectSeq(list, LAMBDA t :
                             \/ includes(toLowerCase(t.description), term)
                             \/ includes(toLowerCase(t.category), term))
                    ELSE list
        byType == IF settings.filterType # "all"
                  THEN SelectSeq(bySearch, LAMBDA t : t.type = settings.filterType)
                  ELSE bySearch
    IN  IF settings.filterCategory # ""
        THEN SelectSeq(byType, LAMBDA t : t.category = settings.filterCategory)
        ELSE byType

\* With no filter set, filtered is state.transactions itself, not a copy.
IsStoreArray(settings) ==
    settings.searchTerm = "" /\ settings.filterType = "all" /\ settings.filterCategory = ""

\* The comparator given to sort.
compare(a, b, settings) ==
    LET comparison == IF settings.sortBy = "date"
                      THEN getTime(a.date) - getTime(b.date)
                      ELSE a.amount - b.amount
    IN  IF settings.sortOrder = "asc" THEN comparison ELSE 0 - comparison

\* Array.prototype.sort is stable: an entry goes before the first entry it
\* compares below.
RECURSIVE InsertSorted(_, _, _)
InsertSorted(sorted, t, settings) ==
    IF sorted = <<>> THEN <<t>>
    ELSE IF compare(t, Head(sorted), settings) < 0 THEN <<t>> \o sorted
    ELSE <<Head(sorted)>> \o InsertSorted(Tail(sorted), t, settings)

RECURSIVE SortFirst(_, _, _)
SortFirst(list, n, settings) ==
    IF n = 0 THEN <<>>
    ELSE InsertSorted(SortFirst(list, n - 1, settings), list[n], settings)

sort(list, settings) == SortFirst(list, Len(list), settings)

\* The rows the Transactions page shows.
filteredAndSortedTransactions(settings) ==
    sort(Filtered(state.transactions, settings), settings)

\* A render of the Transactions page under settings: filtered.sort(...) sorts
\* the array it is called on in place, which is the store's array when no
\* filter is set. The state object is the same, so no save effect follows.
TransactionsRender(settings) ==
    /\ pc = "ready"
    /\ ~crashed
    /\ queue = <<>>
    /\ IsSnapshot(state)
    /\ page' = [name |-> "Transactions", settings |-> settings,
                rows |-> filteredAndSortedTransactions(settings)]
    /\ state' = IF IsStoreArray(settings)
                THEN [state EXCEPT !.transactions = filteredAndSortedTransactions(settings)]
                ELSE state
    /\ UNCHANGED <<queue, storage, savedData, pc, savePending, clock, crashed, lastCall,
                   ops, unwritten, writeFailed>>

\* Mutant: the page computes the percentage from the budget's spent field.
getProgressPercentageOfStored(budget) ==
    MathMin(Times(Divide(budget.spent, budget.limit), 100), Whole(100))

\* The percentage the Budget page shows for a budget of state.budgets:
\* getProgressPercentage(expensesByCategory[budget.category] || 0, budget.limit)
getProgressPercentage(budget) ==
    MathMin(Times(Divide(SpentOf(budget.category), budget.limit), 100), Whole(100))

\* The time ranges of the Reports page and the days each one stands for.
TimeRanges == {"7days", "30days", "90days", "1year"}

daysAgo(timeRange) ==
    CASE timeRange = "7days" -> 7
      [] timeRange = "30days" -> 30
      [] timeRange = "90days" -> 90
      [] timeRange = "1year" -> 365

\* Mutant: a transaction dated at the cutoff itself is left out.
getFilteredTransactionsAfterCutoff(timeRange, now) ==
    LET cutoffDate == now - daysAgo(timeRange) * 24
    IN  SelectSeq(state.transactions, LAMBDA t : getTime(t.date) > cutoffDate)

\* Reports.getFilteredTransactions, now being what new Date() returns.
getFilteredTransactions(timeRange, now) ==
    LET cutoffDate == now - daysAgo(timeRange) * 24
    IN  SelectSeq(state.transactions, LAMBDA t : getTime(t.date) >= cutoffDate)

\* A line of the exported text is the sequence of the fields joined by ','.
CsvHeader == <<"Date", "Type", "Category", "Description", "Amount">>

\* `"${t.description}"`
Quoted(text) == [quoted |-> text]

CsvRow(t) == <<t.date, t.type, t.category, Quoted(t.description), t.amount>>

\* Reports.exportData: the lines of csvContent, joined by '\n'.
csvContent(timeRange, now) ==
    LET filteredTransactions == getFilteredTransactions(timeRange, now)
    IN  <<CsvHeader>> \o [i \in DOMAIN filteredTransactions |-> CsvRow(filteredTransactions[i])]

\* The times at which a report is made: the midnight seven days after the
\* first transaction's date, at which every range still holds every
\* transaction; for every range, one hour after the midnight that many days
\* after the first transaction's date, when the range has lost the first
\* date and not the last; and one hour after the midnights seven days and a
\* year after the last transaction's date.
ReportTimes ==
    {getTime("2024-01-09") + 7 * 24}
        \cup {getTime("2024-01-09") + daysAgo(r) * 24 + 1 : r \in TimeRanges}
        \cup {getTime("2024-01-10") + 7 * 24 + 1, getTime("2024-01-10") + 365 * 24 + 1}

\* A calendar month is counted in months since year 0: year * 12 + month,
\* January being month 0. The month of a date of the form YYYY-MM-DD.
MonthOf(date) ==
    CASE date = "2024-01-09" -> 2024 * 12
      [] date = "2024-01-10" -> 2024 * 12

\* Where the browser's time zone lies: behind UTC, at UTC, or ahead of it.
TimeZones == {"behind", "utc", "ahead"}

\* new Date(year, month, 1).toISOString().slice(0, 7): the month, in UTC, of
\* the local midnight that begins the local month. Ahead of UTC that
\* midnight is still the evening of the last day of the month before.
monthKey(month, zone) == IF zone = "ahead" THEN month - 1 ELSE month

\* date.toLocaleDateString('en-US', { month: 'short', year: '2-digit' }): the
\* name of the local month.
monthName(month) == [label |-> month]

\* Dashboard.getMonthlyData, now being in the local month thisMonth.
getMonthlyData(thisMonth, zone) ==
    [k \in 1 .. 6 |->
        LET month == thisMonth - (6 - k)
            monthTransactions ==
                SelectSeq(state.transactions,
                          LAMBDA t : MonthOf(t.date) = monthKey(month, zone))
        IN  [month |-> monthName(month),
             income |-> SumAmounts(0, SelectSeq(monthTransactions, IsIncome)),
             expenses |-> SumAmounts(0, SelectSeq(monthTransactions, IsExpense))]]

\* The local months in which the dashboard is shown: the month of the
\* transactions, the month after it, the last month whose six buckets reach
\* back to it, and the first one whose buckets do not.
DashboardMonths == {2024 * 12, 2024 * 12 + 1, 2024 * 12 + 5, 2024 * 12 + 6}

\* The application: the pages are the only callers of the store.
AppNext ==
    \/ LoadEffect
    \/ SaveEffect
    \/ SaveEffectThrows
    \/ \E formData \in TransactionForms, transaction \in Editing :
          handleSubmit(formData, transaction)
    \/ \E budgetForm \in BudgetForms : handleSubmitBudget(budgetForm)
    \/ \E transaction \in Editing \ {NoTransaction}, confirmed \in BOOLEAN :
          handleDelete(transaction.id, confirmed)
    \/ \E settings \in ViewSettings : TransactionsRender(settings)
    \/ RenderCommit
    \/ RenderThrow

AppSpec == Init /\ [][AppNext]_vars

-----------------------------------------------------------------------------
(* Properties. *)

\* No call is being processed: the provider is mounted and alive, every
\* dispatched action has been rendered and the save effect has run.
Quiescent == pc = "ready" /\ ~crashed /\ queue = <<>> /\ ~savePending

\* The provider holds a snapshot and no call is being processed. Every state
\* the reducer returns is held at rest once its save effect has run.
AtRest == Quiescent /\ IsSnapshot(state)

\* A step that renders the queued actions.
RenderStep == queue # <<>> /\ queue' = <<>>

\* The only queued action is the one dispatched by a call of op.
LoneCall(op) == IsSnapshot(state) /\ Len(queue) = 1 /\ lastCall.op = op

\* C1: in every reachable state no two entries of the transactions list have
\* the same id.
C1_UniqueTransactionIds ==
    IsSnapshot(state) =>
        \A i, j \in DOMAIN state.transactions :
            i # j => state.transactions[i].id # state.transactions[j].id

C3_MalformedIgnored ==
    (savedData \in MalformedItems /\ ops = 0) => (state = initialState /\ ~crashed)

C6_WitnessNoMatch ==
    /\ LoneCall("updateTransaction")
    /\ state.transactions # <<>>
    /\ \A i \in DOMAIN state.transactions : state.transactions[i].id # lastCall.arg.id

\* The entries of list whose id is not id, by position.
Kept(list, id) == {i \in DOMAIN list : list[i].id # id}

\* C7: a rendered deleteTransaction(id) leaves no entry with that id and keeps
\* every other entry, in the same relative order; with no such entry the list
\* is unchanged; the render does not throw.
C7_DeleteRemovesById ==
    [][(LoneCall("deleteTransaction") /\ RenderStep) =>
        LET old == state.transactions
            new == state'.transactions
            id == lastCall.arg
            keep == Kept(old, id)
        IN  /\ ~crashed'
            /\ Len(new) = Cardinality(keep)
            /\ \A i \in keep : new[Cardinality({k \in keep : k <= i})] = old[i]
            /\ (keep = DOMAIN old) => new = old]_vars

\* C7 witness: the persisted transaction, first of two, was deleted and the
\* one added behind it is what is left.
C7_Witness ==
    /\ Quiescent
    /\ IsSnapshot(state)
    /\ savedData = JSONstringify(PriorSnapshot)
    /\ Len(state.transactions) = 1
    /\ state.transactions[1].id = "1"

\* C8: the budgets list holds at most one budget per category name.
C8_OneBudgetPerCategory ==
    IsSnapshot(state) =>
        \A i, j \in DOMAIN state.budgets :
            i # j => state.budgets[i].category # state.budgets[j].category

\* C8 witness: two budgets, the first of which is the persisted one set again
\* with another limit.
C8_Witness ==
    /\ Quiescent
    /\ IsSnapshot(state)
    /\ savedData = JSONstringify(PriorSnapshot)
    /\ Len(state.budgets) = 2
    /\ state.budgets[1].category = PriorSnapshot.budgets[1].category
    /\ state.budgets[1].limit # PriorSnapshot.budgets[1].limit

\* The budgets of list that are for category.
BudgetsFor(list, category) == {i \in DOMAIN list : list[i].category = category}

\* C9: a rendered setBudget(b) on a category that has a budget with another
\* limit (set by an earlier call, whatever was called in between) leaves
\* exactly one budget for that category, and its limit is b.limit.
C9_SecondSetBudgetWins ==
    [][(/\ LoneCall("setBudget")
        /\ RenderStep
        /\ \E i \in BudgetsFor(state.budgets, lastCall.arg.category) :
              state.budgets[i].limit # lastCall.arg.limit) =>
        LET new == state'.budgets
            b == lastCall.arg
        IN  /\ ~crashed'
            /\ Cardinality(BudgetsFor(new, b.category)) = 1
            /\ \A i \in BudgetsFor(new, b.category) : new[i].limit = b.limit]_vars

\* C9 witness: the category of the persisted budget was given another limit,
\* and a transaction was added as well; one budget is there, with that limit.
C9_Witness ==
    /\ Quiescent
    /\ IsSnapshot(state)
    /\ savedData = JSONstringify(PriorSnapshot)
    /\ Len(state.transactions) = 2
    /\ Len(state.budgets) = 1
    /\ state.budgets[1].category = PriorSnapshot.budgets[1].category
    /\ state.budgets[1].limit = 2
    /\ state.budgets[1].spent = 0

\* C10: a rendered setBudget(b) on a category that has a budget puts b at that
\* budget's position and leaves the list length and every other budget
\* unchanged; on a category without a budget it appends b as the last entry.
C10_SetBudgetUpserts ==
    [][(LoneCall("setBudget") /\ RenderStep) =>
        LET old == state.budgets
            new == state'.budgets
            b == lastCall.arg
        IN  /\ ~crashed'
            /\ IF BudgetsFor(old, b.category) # {}
               THEN /\ Len(new) = Len(old)
                    /\ \A i \in DOMAIN old :
                          new[i] = IF i \in BudgetsFor(old, b.category) THEN b ELSE old[i]
               ELSE /\ Len(new) = Len(old) + 1
                    /\ \A i \in DOMAIN old : new[i] = old[i]
                    /\ new[Len(new)] = b]_vars

\* C10 witness: a budget was appended behind the persisted one, and the
\* persisted one was replaced where it was.
C10_Witness ==
    /\ Quiescent
    /\ IsSnapshot(state)
    /\ savedData = JSONstringify(PriorSnapshot)
    /\ Len(state.budgets) = 2
    /\ state.budgets[1] = [category |-> Food, limit |-> 2, spent |-> 0]
    /\ state.budgets[2].category = Shopping

\* The amounts of the entries of list that are of type type, in list order.
AmountsOfType(list, type) ==
    LET entries == SelectSeq(list, LAMBDA t : t.type = type)
    IN  [i \in 1 .. Len(entries) |-> entries[i].amount]

\* The sum of the first n of a sequence of numbers, added from the left, and
\* the sum of them all.
RECURSIVE SumOfFirst(_, _)
SumOfFirst(numbers, n) ==
    IF n = 0 THEN 0 ELSE SumOfFirst(numbers, n - 1) + numbers[n]

SumOf(numbers) == SumOfFirst(numbers, Len(numbers))

\* C11: in every snapshot held at rest the total income is the sum of the amounts
\* of the income transactions, the total expenses the sum of the amounts of the
\* expense transactions, and the balance is the total income minus the total
\* expenses.
C11_BalanceIsIncomeMinusExpenses ==
    AtRest =>
        /\ calculateTotalIncome = SumOf(AmountsOfType(state.transactions, "income"))
        /\ calculateTotalExpenses = SumOf(AmountsOfType(state.transactions, "expense"))
        /\ calculateBalance = calculateTotalIncome - calculateTotalExpenses

\* C11 witness: after mutations the list holds an income and two expenses and
\* the balance is below zero.
C11_Witness ==
    /\ Quiescent
    /\ IsSnapshot(state)
    /\ ops > 0
    /\ calculateTotalIncome = 1
    /\ calculateTotalExpenses = 1100
    /\ calculateBalance = 0 - 1099

\* The categories of list, each once, in the order of their first entry: the
\* order in which the keys of the returned object are enumerated.
RECURSIVE KeysInOrder(_, _)
KeysInOrder(list, seen) ==
    IF list = <<>> THEN <<>>
    ELSE IF Head(list).category \in seen
         THEN KeysInOrder(Tail(list), seen)
         ELSE <<Head(list).category>>
                  \o KeysInOrder(Tail(list), seen \cup {Head(list).category})

\* The values of getExpensesByCategory(), in the order of its keys.
ExpenseValues ==
    LET keys == KeysInOrder(SelectSeq(state.transactions, IsExpense), {})
        byCategory == getExpensesByCategory
    IN  [i \in 1 .. Len(keys) |-> byCategory[keys[i]]]

ExpenseAmountsOf(list, category) ==
    LET entries == SelectSeq(list, LAMBDA t : t.type = "expense" /\ t.category = category)
    IN  [i \in 1 .. Len(entries) |-> entries[i].amount]

\* C13: in every snapshot held at rest the keys of getExpensesByCategory() are
\* exactly the categories of the expense transactions, and each key maps to
\* the sum of the amounts of the expense transactions of that category; an
\* income transaction adds no key and adds to no value.
C13_KeysAreExpenseCategories ==
    AtRest =>
        LET list == state.transactions
            byCategory == getExpensesByCategory
        IN  /\ DOMAIN byCategory =
                  {list[i].category : i \in {j \in DOMAIN list : list[j].type = "expense"}}
            /\ \A c \in DOMAIN byCategory :
                  byCategory[c] = SumOf(ExpenseAmountsOf(list, c))

\* C13 witness: the list holds expenses of two categories, two of them in
\* 'Food & Dining', and an income in 'Food & Dining'; the object has the two
\* keys and the income is in neither value.
C13_Witness ==
    /\ Quiescent
    /\ IsSnapshot(state)
    /\ \E i \in DOMAIN state.transactions :
          state.transactions[i].type = "income" /\ state.transactions[i].category = Food
    /\ DOMAIN getExpensesByCategory = {Food, Shopping}
    /\ getExpensesByCategory[Food] = 501
    /\ getExpensesByCategory[Shopping] = 5000

\* The category names a consumer asks about: the two that transactions and
\* budgets are given, and the added ones, which never have either.
CategoryNames == {Food, Shopping} \cup {category.name : category \in CategoryData}

\* C14: in every snapshot held at rest and for every category c,
\* getBudgetProgress(c) is a number from 0 to 100, both included.
C14_ProgressWithinRange ==
    AtRest =>
        \A c \in CategoryNames :
            LET p == getBudgetProgress(c)
            IN  p.den > 0 /\ 0 <= p.num /\ p.num <= 100 * p.den

\* C14 witness: 'Shopping' has a budget of limit 1 and expenses of 5000, and
\* its progress is 100; 'Food & Dining' has a budget and a progress strictly
\* between 0 and 100.
C14_Witness ==
    /\ Quiescent
    /\ IsSnapshot(state)
    /\ \E i \in DOMAIN state.budgets :
          state.budgets[i].category = Shopping /\ state.budgets[i].limit = 1
    /\ getExpensesByCategory = (Food :> 1) @@ (Shopping :> 5000)
    /\ getBudgetProgress(Shopping) = Whole(100)
    /\ getBudgetProgress(Food) = Fraction(100, 3)

\* C15: in every snapshot held at rest and for every category c,
\* getBudgetProgress(c) is 0 when c has no budget, and otherwise the smaller of
\* 100 and 100 * spent / limit, where limit is that of the budget of c and
\* spent is the sum of the amounts of the expense transactions of c in the
\* transaction list; the spent field of the budget is not read.
C15_ProgressFromTransactions ==
    AtRest =>
        \A c \in CategoryNames :
            LET of == BudgetsFor(state.budgets, c)
                spent == SumOf(ExpenseAmountsOf(state.transactions, c))
                progress == getBudgetProgress(c)
            IN  IF of = {}
                THEN progress = Whole(0)
                ELSE \A i \in of :
                        progress =
                            IF spent >= state.budgets[i].limit
                            THEN Whole(100)
                            ELSE Fraction(100 * spent, state.budgets[i].limit)

\* C15 witness: 'Food & Dining' has a budget of limit 1000 whose spent field is
\* 500 while its expenses in the list add up to 600, and the progress is 60;
\* 'Shopping' has no budget and its progress is 0.
C15_Witness ==
    /\ Quiescent
    /\ IsSnapshot(state)
    /\ state.budgets = << [category |-> Food, limit |-> 1000, spent |-> 500] >>
    /\ getExpensesByCategory = (Food :> 600) @@ (Shopping :> 5000)
    /\ getBudgetProgress(Food) = Whole(60)
    /\ getBudgetProgress(Shopping) = Whole(0)

\* A payload of the scenario: an expense of amount in 'Food & Dining'.
IsScenarioExpense(data, amount) ==
    data.amount = amount /\ data.type = "expense" /\ data.category = Food

\* The state of the scenario after its first step, and after its second.
AfterFirstExpense ==
    /\ IsSnapshot(state)
    /\ state.categories = defaultCategories
    /\ state.budgets = <<>>
    /\ Len(state.transactions) = 1
    /\ IsScenarioExpense(state.transactions[1], 500)

AfterBudget ==
    /\ IsSnapshot(state)
    /\ state.categories = defaultCategories
    /\ Len(state.budgets) = 1
    /\ state.budgets[1].category = Food
    /\ state.budgets[1].limit = 1000
    /\ Len(state.transactions) = 1
    /\ IsScenarioExpense(state.transactions[1], 500)

\* C16: on the seed snapshot, a rendered addTransaction of an expense of 500 in
\* 'Food & Dining' gives total expenses 500 and 500 under 'Food & Dining' in
\* getExpensesByCategory(); on the resulting state a rendered setBudget of
\* limit 1000 for the category gives a progress of 50; on the resulting state a
\* rendered addTransaction of an expense of 600 in the category gives a
\* progress of 100.
C16_Scenario ==
    [][/\ (/\ state = initialState
            /\ LoneCall("addTransaction")
            /\ IsScenarioExpense(lastCall.arg, 500)
            /\ RenderStep) =>
                /\ AfterFirstExpense'
                /\ calculateTotalExpenses' = 500
                /\ getExpensesByCategory' = (Food :> 500)
       /\ (/\ AfterFirstExpense
            /\ LoneCall("setBudget")
            /\ lastCall.arg.category = Food
            /\ lastCall.arg.limit = 1000
            /\ RenderStep) =>
                /\ AfterBudget'
                /\ getBudgetProgress(Food)' = Whole(50)
       /\ (/\ AfterBudget
            /\ LoneCall("addTransaction")
            /\ IsScenarioExpense(lastCall.arg, 600)
            /\ RenderStep) =>
                /\ calculateTotalExpenses' = 1100
                /\ getBudgetProgress(Food)' = Whole(100)]_vars

\* C16 witness: the first two steps of the scenario have been rendered and
\* written, the progress is 50, and the third step's call is queued alone.
C16_Witness ==
    /\ savedData = NoItem
    /\ ops = 3
    /\ AfterBudget
    /\ getBudgetProgress(Food) = Whole(50)
    /\ LoneCall("addTransaction")
    /\ IsScenarioExpense(lastCall.arg, 600)

\* What a provider starting over the text written for snapshot s holds once
\* its LOAD_DATA is rendered.
Rehydrated(s) ==
    budgetReducer(initialState,
                  [type |-> "LOAD_DATA", payload |-> JSONparse(JSONstringify(s))])

C18_WriteFailureSwallowed == (writeFailed /\ ops > 0) => ~crashed

\* Startup is over: both mount effects have run and the LOAD_DATA action of
\* the load effect, if any, has been rendered.
StartupDone ==
    /\ pc = "ready"
    /\ \A i \in DOMAIN queue : queue[i].type # "LOAD_DATA"

IsPrefix(a, b) == Len(a) <= Len(b) /\ \A i \in DOMAIN a : b[i] = a[i]

\* C19: after startup every step leaves the categories list of the state it
\* starts from as a prefix of the categories list of the state it ends in,
\* and a rendered addCategory(c) makes the list exactly one entry longer, the
\* new last entry having c's name, icon and color, whether or not the list had
\* the name.
C19_CategoriesOnlyAppended ==
    [][/\ (StartupDone /\ IsSnapshot(state)) =>
              (IsSnapshot(state') /\ IsPrefix(state.categories, state'.categories))
       /\ (StartupDone /\ LoneCall("addCategory") /\ RenderStep) =>
              LET old == state.categories
                  new == state'.categories
                  c == lastCall.arg
              IN  /\ ~crashed'
                  /\ Len(new) = Len(old) + 1
                  /\ new[Len(new)].name = c.name
                  /\ new[Len(new)].icon = c.icon
                  /\ new[Len(new)].color = c.color]_vars

\* C19 witness: on the seed list a category was added under a name the seed
\* has, and then a transaction; the nine seed categories are still the first
\* nine and the tenth has the name of the ninth.
C19_Witness ==
    /\ Quiescent
    /\ IsSnapshot(state)
    /\ Len(state.transactions) = 1
    /\ Len(state.categories) = Len(defaultCategories) + 1
    /\ IsPrefix(defaultCategories, state.categories)
    /\ state.categories[Len(state.categories)].name
          = defaultCategories[Len(defaultCategories)].name

\* A step in which the save effect ran, one in which its write succeeded, and
\* one that is a mutation call.
SaveStep == savePending /\ ~savePending'
WriteStep == SaveStep /\ ~writeFailed'
CallStep == ops' = ops + 1

C21_StartupKeepsPrior ==
    (savedData = JSONstringify(PriorSnapshot) /\ ops = 0) =>
        /\ storage = JSONstringify(PriorSnapshot)
        /\ storage # JSONstringify(initialState)
        /\ Quiescent => state = PriorSnapshot

\* The state after the first n actions of q, each applied to the state the
\* one before it gave.
RECURSIVE InCallOrder(_, _, _)
InCallOrder(s, q, n) ==
    IF n = 0 THEN s ELSE budgetReducer(InCallOrder(s, q, n - 1), q[n])

\* The payloads of the actions of q, in dispatch order.
Payloads(q) == [i \in DOMAIN q |-> q[i].payload]

\* C22: a render of two or more mutation calls made since the last render
\* does not throw and gives the state that applying them one after another,
\* in call order, gives; when all of them are addTransaction calls the list
\* is the old list followed by their transactions in call order.
C22_BatchedCallsBothApplied ==
    [][(StartupDone /\ IsSnapshot(state) /\ Len(queue) >= 2 /\ RenderStep) =>
        /\ ~crashed'
        /\ state' = InCallOrder(state, queue, Len(queue))
        /\ (\A i \in DOMAIN queue : queue[i].type = "ADD_TRANSACTION") =>
               state'.transactions = state.transactions \o Payloads(queue)]_vars

\* C22 witness: on the seed snapshot an addTransaction and an
\* updateTransaction of the added entry were called before any render; one
\* commit has applied both, the update after the addition.
C22_Witness ==
    /\ ~crashed
    /\ IsSnapshot(state)
    /\ savedData = NoItem
    /\ ops = 2
    /\ unwritten = 2
    /\ queue = <<>>
    /\ Len(state.transactions) = 1
    /\ state.transactions[1].description = "Edited"

\* C23: a render of the Transactions page, under any search term, type
\* filter, category filter and sort setting, leaves the transactions list of
\* the store with the same entries in the same order.
C23_ViewIsReadOnly ==
    [][page'.name = "Transactions" => state'.transactions = state.transactions]_vars

\* A submitted transaction form breaks one of the three rules: its amount is
\* no number above 0, its category is empty, or its description is empty once
\* trimmed.
BreaksRule(formData) ==
    LET amount == Number(formData.amount)
    IN  \/ amount = NaN
        \/ ~(amount > 0)
        \/ formData.category = ""
        \/ trim(formData.description) = ""

\* C24: a submission of the transaction form that breaks a rule calls no
\* store function and leaves the state, the queue and the stored text as they
\* are; any other submission calls one store function, addTransaction or
\* updateTransaction, with an amount above 0, a category that is not empty and
\* a trimmed description that is not empty.
C24_FormValidates ==
    [][page'.name = "TransactionForm" =>
        IF BreaksRule(page'.formData)
        THEN /\ page'.errors # {}
             /\ UNCHANGED <<state, queue, storage, ops, lastCall>>
        ELSE LET sent == queue'[Len(queue')]
             IN  /\ ops' = ops + 1
                 /\ Len(queue') = Len(queue) + 1
                 /\ sent.type \in {"ADD_TRANSACTION", "UPDATE_TRANSACTION"}
                 /\ sent.payload.amount > 0
                 /\ sent.payload.amount # NaN
                 /\ sent.payload.category # ""
                 /\ sent.payload.description # ""
                 /\ sent.payload.description = trim(page'.formData.description)]_vars

\* C24 witness: the form was refused for a description of spaces only, over a
\* state that holds a transaction submitted with spaces around its
\* description and stored without them.
C24_Witness ==
    /\ page.name = "TransactionForm"
    /\ page.errors = {"description"}
    /\ IsSnapshot(state)
    /\ queue = <<>>
    /\ Len(state.transactions) = 1
    /\ state.transactions[1].description = "Shoes"
    /\ state.transactions[1].amount = 600
    /\ storage = JSONstringify(state)

\* C25: a submission of the budget form with an empty category, an empty
\* limit or a limit that is not above 0 calls no store function and leaves the
\* state, the queue and the stored text as they are; any other submission
\* calls setBudget once, with the category of the form, the number its limit
\* text stands for, and a spent field that is the sum of the amounts of the
\* expense transactions of the category in the list, 0 when there is none.
C25_BudgetFormValidates ==
    [][page'.name = "Budget" =>
        LET form == page'.budgetForm
        IN  IF form.category = "" \/ form.limit = "" \/ ~(Number(form.limit) > 0)
            THEN /\ page'.toast = "Invalid input"
                 /\ UNCHANGED <<state, queue, storage, ops, lastCall>>
            ELSE LET sent == queue'[Len(queue')]
                 IN  /\ ops' = ops + 1
                     /\ Len(queue') = Len(queue) + 1
                     /\ sent.type = "SET_BUDGET"
                     /\ sent.payload.category = form.category
                     /\ sent.payload.limit = Number(form.limit)
                     /\ sent.payload.spent =
                            SumOf(ExpenseAmountsOf(state.transactions, form.category))]_vars

\* C25 witness: with an expense of 600 in 'Shopping' and none in
\* 'Food & Dining', the form has set a budget for each; the first has a spent
\* field of 0, the second one of 600.
C25_Witness ==
    /\ IsSnapshot(state)
    /\ queue = <<>>
    /\ ~savePending
    /\ Len(state.transactions) = 1
    /\ state.budgets = << [category |-> Food, limit |-> 1000, spent |-> 0],
                          [category |-> Shopping, limit |-> 1, spent |-> 600] >>

\* C26: a rendered addTransaction, updateTransaction or deleteTransaction
\* leaves the budgets list, the spent field of every budget included, and the
\* categories list unchanged; a rendered setBudget leaves the transactions
\* and the categories unchanged; a rendered addCategory leaves the
\* transactions and the budgets unchanged.
C26_FrameOfMutations ==
    [][/\ ((\/ LoneCall("addTransaction")
             \/ LoneCall("updateTransaction")
             \/ LoneCall("deleteTransaction")) /\ RenderStep) =>
                /\ ~crashed'
                /\ state'.budgets = state.budgets
                /\ state'.categories = state.categories
       /\ (LoneCall("setBudget") /\ RenderStep) =>
                /\ ~crashed'
                /\ state'.transactions = state.transactions
                /\ state'.categories = state.categories
       /\ (LoneCall("addCategory") /\ RenderStep) =>
                /\ ~crashed'
                /\ state'.transactions = state.transactions
                /\ state'.budgets = state.budgets]_vars

\* C26 witness: on the seed snapshot a budget of 'Food & Dining' was set
\* with a spent field of 500, an expense of 600 of the category was added and
\* a category was added; each list holds what its own call gave, and the
\* spent field is still 500.
C26_Witness ==
    /\ Quiescent
    /\ IsSnapshot(state)
    /\ savedData = NoItem
    /\ ops = 3
    /\ Len(state.transactions) = 1
    /\ state.transactions[1].amount = 600
    /\ state.budgets = << [category |-> Food, limit |-> 1000, spent |-> 500] >>
    /\ Len(state.categories) = Len(defaultCategories) + 1
    /\ state.categories[Len(state.categories)].name = "Travel"

\* The days of each time range, as the claim gives them.
DaysOfRange == [r \in TimeRanges |->
                  IF r = "7days" THEN 7 ELSE IF r = "30days" THEN 30
                  ELSE IF r = "90days" THEN 90 ELSE 365]

\* The positions of the transactions of list dated not earlier than time.
NotEarlier(list, time) == {i \in DOMAIN list : getTime(list[i].date) >= time}

\* C27: for every time range and every time of the report, the report's
\* filtered transactions are exactly the stored transactions whose date is not
\* earlier than that time minus the days of the range, in store order, and
\* the exported text is one header line followed by one line for each of
\* them, in that order.
C27_ReportFilter ==
    AtRest =>
        \A r \in TimeRanges, now \in ReportTimes :
            LET list == state.transactions
                keep == NotEarlier(list, now - DaysOfRange[r] * 24)
                filtered == getFilteredTransactions(r, now)
                lines == csvContent(r, now)
            IN  /\ Len(filtered) = Cardinality(keep)
                /\ \A i \in keep : filtered[Cardinality({k \in keep : k <= i})] = list[i]
                /\ Len(lines) = Len(filtered) + 1
                /\ lines[1] = CsvHeader
                /\ \A i \in DOMAIN filtered :
                      /\ lines[i + 1][1] = filtered[i].date
                      /\ lines[i + 1][2] = filtered[i].type
                      /\ lines[i + 1][3] = filtered[i].category
                      /\ lines[i + 1][4] = Quoted(filtered[i].description)
                      /\ lines[i + 1][5] = filtered[i].amount

\* C27 witness: the list holds a transaction of 2024-01-09 and two of
\* 2024-01-10. At midnight seven days after the first date the 7-day report
\* has all three; an hour later it has the last two, its text has three
\* lines, and the 30-day report still has all three.
C27_Witness ==
    /\ AtRest
    /\ Len(state.transactions) = 3
    /\ state.transactions[1].date = "2024-01-09"
    /\ Len(getFilteredTransactions("7days", getTime("2024-01-09") + 7 * 24)) = 3
    /\ getFilteredTransactions("7days", getTime("2024-01-09") + 7 * 24 + 1)
          = SubSeq(state.transactions, 2, 3)
    /\ Len(csvContent("7days", getTime("2024-01-09") + 7 * 24 + 1)) = 3
    /\ Len(getFilteredTransactions("30days", getTime("2024-01-09") + 7 * 24 + 1)) = 3

\* C28: in every snapshot held at rest, the percentage the Budget page shows
\* for each budget of the list is getBudgetProgress of the budget's category,
\* and it is the smaller of 100 and 100 * spent / limit, spent being the sum
\* of the amounts of the expense transactions of the category in the list.
C28_PageShowsStoreProgress ==
    AtRest =>
        \A i \in DOMAIN state.budgets :
            LET budget == state.budgets[i]
                spent == SumOf(ExpenseAmountsOf(state.transactions, budget.category))
            IN  /\ getProgressPercentage(budget) = getBudgetProgress(budget.category)
                /\ getProgressPercentage(budget) =
                       IF spent >= budget.limit THEN Whole(100)
                       ELSE Fraction(100 * spent, budget.limit)

\* C28 witness: the budget of 'Food & Dining' has a spent field of 0 and a
\* limit of 2, the budget of 'Shopping' a limit of 1; with an expense of 1 in
\* 'Food & Dining' and none in 'Shopping' the page shows 50 and 0, as the
\* store does.
C28_Witness ==
    /\ AtRest
    /\ state.budgets = << [category |-> Food, limit |-> 2, spent |-> 0],
                          [category |-> Shopping, limit |-> 1, spent |-> 0] >>
    /\ getProgressPercentage(state.budgets[1]) = Whole(50)
    /\ getBudgetProgress(Food) = Whole(50)
    /\ getProgressPercentage(state.budgets[2]) = Whole(0)
    /\ getBudgetProgress(Shopping) = Whole(0)

\* The positions at which two lists of one length differ.
Changed(old, new) == {i \in DOMAIN old : new[i] # old[i]}

\* C29: a rendered deleteTransaction(id) shortens the transactions list by at
\* most one entry, and a rendered updateTransaction(t) keeps the length of the
\* list and changes at most one entry, in every state reached by store calls
\* from the seed snapshot.
C29_AtMostOneEntry ==
    [][/\ (savedData = NoItem /\ LoneCall("deleteTransaction") /\ RenderStep) =>
              /\ Len(state'.transactions) <= Len(state.transactions)
              /\ Len(state'.transactions) >= Len(state.transactions) - 1
       /\ (savedData = NoItem /\ LoneCall("updateTransaction") /\ RenderStep) =>
              /\ Len(state'.transactions) = Len(state.transactions)
              /\ Cardinality(Changed(state.transactions, state'.transactions)) <= 1]_vars

\* The amounts of the transactions of list of type type dated in month.
AmountsInMonth(list, type, month) ==
    LET entries == SelectSeq(list, LAMBDA t : t.type = type /\ MonthOf(t.date) = month)
    IN  [i \in 1 .. Len(entries) |-> entries[i].amount]

\* C30: in every snapshot held at rest, for every month and time zone in
\* which the dashboard is shown, the monthly trend has six buckets, for the
\* current month and the five before it, oldest first; each bucket has the
\* name of its month, and its income and expenses are the sums of the amounts
\* of the income and of the expense transactions dated in that month.
C30_MonthlyBuckets ==
    AtRest =>
        \A thisMonth \in DashboardMonths, zone \in TimeZones :
            LET months == getMonthlyData(thisMonth, zone)
            IN  /\ Len(months) = 6
                /\ \A k \in 1 .. 6 :
                      LET month == thisMonth - 6 + k
                      IN  /\ months[k].month = monthName(month)
                          /\ months[k].income =
                                 SumOf(AmountsInMonth(state.transactions, "income", month))
                          /\ months[k].expenses =
                                 SumOf(AmountsInMonth(state.transactions, "expense", month))

====
